---- MODULE Spec2Model ----
(***************************************************************************)
(* Model of src/rust/src/main.rs: a sequential script that drives a        *)
(* Bitcoin Core regtest node over JSON-RPC (wallet setup, maturity-polling *)
(* mining loop, payment, mempool query, confirmation, transaction          *)
(* forensics, ten-field report).                                           *)
(*                                                                         *)
(* The node is the environment.  Its state (wallets, chain, mempool,       *)
(* transactions) is modelled by the variables walletState, height,         *)
(* minerBlocks, mempool, confirmedAt and txStore, and changes only through *)
(* the RPC calls the script makes.  Every RPC call may also fail in        *)
(* transport, in which case the node is left unchanged.                    *)
(*                                                                         *)
(* Amounts are integers: a number of base units, UnitsPerBtc of them to    *)
(* the bitcoin.  The f64 values the script obtains with to_btc() are the   *)
(* exact rationals units / UnitsPerBtc.                                    *)
(***************************************************************************)
EXTENDS Integers, Sequences, FiniteSets, TLC

\* ------------------------------------------------------------------ bounds
MaxInitHeight == 1      \* blocks already on the chain when the script starts
MaxLoopFaults == 2      \* RPC calls that fail inside the mining loop
MaxFee        == 2      \* fee, in base units, the node may pick for the payment
UnitsPerBtc   == 4      \* resolution of amounts: base units per bitcoin
MaxOutputs    == 3      \* outputs of an analysed transaction (SpecTx)
MaxInputs     == 2      \* inputs of an analysed transaction (SpecTx)
MaxValue      == 2      \* largest output value of an analysed transaction (SpecTx)

\* ------------------------------------------------------- program constants
COINBASE_MATURITY == 100   \* "Must wait for 100 MORE blocks after your block"
RewardBtc         == 50    \* "coinbase reward (50 BTC in regtest)"
SendBtc           == 20    \* Amount::from_int_btc(20)

Reward       == RewardBtc * UnitsPerBtc
AmountToSend == SendBtc * UnitsPerBtc

WalletNames == {"Miner", "Trader"}
WalletOrder == <<"Miner", "Trader">>

MinerAddr  == "bcrt1q_miner_reward"
TraderAddr == "bcrt1q_trader_received"
ChangeAddr == "bcrt1q_miner_change"
OtherAddr  == "bcrt1q_other"

\* ----------------------------------------------------------------- scripts
\* A locking script is its type and, for the address-bearing types, the
\* address it pays.  Address::from_script succeeds on the standard
\* address-bearing types only.
AddressTypes == {"p2wpkh"}

PayTo(addr) == [type |-> "p2wpkh", dest |-> addr]
NullData    == [type |-> "nulldata", dest |-> ""]

FromScript(script) ==
    IF script.type \in AddressTypes
    THEN [ok |-> TRUE, addr |-> script.dest]
    ELSE [ok |-> FALSE, addr |-> ""]

\* ------------------------------------------------------------- transactions
CoinbaseId(b) == <<"coinbase", b>>
PayTxid       == <<"payment", 1>>
PrevTxid(i)   == <<"prev", i>>

BlockHash(h) == <<"blockhash", h>>

\* The coinbase transaction of a block generated to `addr`: the reward, and
\* the zero-valued witness commitment, whose script holds no address.
CoinbaseTx(addr) ==
    [input  |-> <<>>,
     output |-> <<[script_pubkey |-> PayTo(addr), value |-> Reward],
                  [script_pubkey |-> NullData, value |-> 0]>>]

\* ------------------------------------------------------------------- state
VARIABLES
    \* the node
    walletState,      \* wallet name -> "absent" | "unloaded" | "loaded"
    height,           \* chain height
    minerBlocks,      \* heights of the blocks whose coinbase pays MinerAddr
    mempool,          \* txids waiting for confirmation
    confirmedAt,      \* txid -> height of the block that confirmed it
    txStore,          \* txid -> transaction, for the non-coinbase transactions
    \* the script
    pc,               \* the statement about to run
    err,              \* why the run ended in error ("" while it has not)
    wallets,          \* result of list_wallets
    wi,               \* position in ["Miner", "Trader"]
    miner_address,
    count,            \* current element of the iterator (1..)
    blocks_mined_count,
    spendable_balance,
    trader_address,
    transaction_id,
    mempool_entry,
    raw_transaction,
    latest_block_hash,
    current_block_height,
    sender_address,
    total_input_amount,
    recipient_address,
    recipient_amount,
    change_return_address,
    change_return_amount,
    oi,               \* position of the output loop in raw_transaction.output
    mining_fees,
    file_touched,     \* File::create has truncated / created ../out.txt
    file_pieces,      \* what ../out.txt holds, piece by piece
    \* history
    initHeight,       \* chain height when the script started
    initWallets,      \* walletState when the script started
    iterations,       \* iterations of the mining loop that have completed
    loopBlocks,       \* blocks the mining loop has generated
    loopFaults,       \* RPC calls that failed inside the mining loop
    balances,         \* balances the mining loop has observed, in order
    heightAtSend,     \* chain height when the payment was broadcast
    heightAtQuery     \* chain height when the mempool entry was queried

nodeVars     == <<walletState, height, minerBlocks, mempool, confirmedAt, txStore>>
setupVars    == <<wallets, wi, miner_address>>
loopVars     == <<count, blocks_mined_count, spendable_balance>>
payVars      == <<trader_address, transaction_id, mempool_entry>>
chainVars    == <<raw_transaction, latest_block_hash, current_block_height>>
inputVars    == <<sender_address, total_input_amount>>
outputVars   == <<recipient_address, recipient_amount,
                  change_return_address, change_return_amount, oi>>
fileVars     == <<file_touched, file_pieces>>
histVars     == <<initHeight, initWallets, iterations, loopBlocks, loopFaults,
                  balances, heightAtSend, heightAtQuery>>

vars == <<nodeVars, pc, err, setupVars, loopVars, payVars, chainVars,
          inputVars, outputVars, mining_fees, fileVars, histVars>>

NoTx == [input |-> <<>>, output |-> <<>>]
OldContents == <<"contents of an earlier run">>

\* ------------------------------------------------------------ node queries
\* listwallets: the names of the wallets that are loaded.
NodeListWallets == {w \in WalletNames : walletState[w] = "loaded"}

\* createwallet: refused when a wallet of that name is already on disk.
NodeCreateWallet(w) ==
    IF walletState[w] = "absent"
    THEN [ok |-> TRUE, reason |-> ""]
    ELSE [ok |-> FALSE, reason |-> "createwallet: database already exists"]

\* loadwallet: refused when the wallet is absent or already loaded.
NodeLoadWallet(w) ==
    IF walletState[w] = "unloaded"
    THEN [ok |-> TRUE, reason |-> ""]
    ELSE IF walletState[w] = "loaded"
         THEN [ok |-> FALSE, reason |-> "loadwallet: wallet is already loaded"]
         ELSE [ok |-> FALSE, reason |-> "loadwallet: wallet not found"]

\* The coinbase of block b can be spent once the chain has
\* COINBASE_MATURITY blocks on top of the block before b.
MatureBlocks == {b \in minerBlocks : height - b >= COINBASE_MATURITY}

\* getbalance of the Miner wallet, before the wallet has spent anything.
NodeBalance == Reward * Cardinality(MatureBlocks)

\* getrawtransaction.
NodeGetTx(id) ==
    IF id \in DOMAIN txStore
    THEN txStore[id]
    ELSE CoinbaseTx(IF id[2] \in minerBlocks THEN MinerAddr ELSE OtherAddr)

\* generatetoaddress n <MinerAddr>: n blocks, the first of which confirms
\* what the mempool holds.
GenerateToAddress(n) ==
    /\ height' = height + n
    /\ minerBlocks' = minerBlocks \cup ((height + 1) .. (height + n))
    /\ confirmedAt' = [id \in DOMAIN confirmedAt \cup mempool |->
                         IF id \in mempool THEN height + 1 ELSE confirmedAt[id]]
    /\ mempool' = {}
    /\ UNCHANGED <<walletState, txStore>>

\* --------------------------------------------------------------------- init
Init ==
    /\ walletState \in [WalletNames -> {"absent", "unloaded", "loaded"}]
    /\ height \in 0 .. MaxInitHeight
    /\ minerBlocks = {}
    /\ mempool = {}
    /\ confirmedAt = [id \in {} |-> 0]
    /\ txStore = [id \in {} |-> NoTx]
    /\ pc = "blockchain_info"
    /\ err = ""
    /\ wallets = {}
    /\ wi = 1
    /\ miner_address = ""
    /\ count = 1
    /\ blocks_mined_count = 0
    /\ spendable_balance = 0
    /\ trader_address = ""
    /\ transaction_id = <<"none", 0>>
    /\ mempool_entry = FALSE
    /\ raw_transaction = NoTx
    /\ latest_block_hash = <<"none", 0>>
    /\ current_block_height = 0
    /\ sender_address = ""
    /\ total_input_amount = 0
    /\ recipient_address = ""
    /\ recipient_amount = 0
    /\ change_return_address = ""
    /\ change_return_amount = 0
    /\ oi = 1
    /\ mining_fees = 0
    /\ file_touched = FALSE
    /\ file_pieces = OldContents
    /\ initHeight = height
    /\ initWallets = walletState
    /\ iterations = 0
    /\ loopBlocks = 0
    /\ loopFaults = 0
    /\ balances = <<>>
    /\ heightAtSend = 0
    /\ heightAtQuery = 0

\* ------------------------------------------------------------ wallet setup
\* rpc.get_blockchain_info()?
BlockchainInfo ==
    /\ pc = "blockchain_info"
    /\ pc' = "list_wallets"
    /\ UNCHANGED <<nodeVars, err, setupVars, loopVars, payVars, chainVars,
                   inputVars, outputVars, mining_fees, fileVars, histVars>>

\* let wallets = rpc.list_wallets()?
ListWallets ==
    /\ pc = "list_wallets"
    /\ wallets' = NodeListWallets
    /\ wi' = 1
    /\ pc' = "setup_wallet"
    /\ UNCHANGED <<nodeVars, err, miner_address, loopVars, payVars, chainVars,
                   inputVars, outputVars, mining_fees, fileVars, histVars>>

\* One pass of `for wallet in ["Miner", "Trader"]`: create the wallet when
\* list_wallets did not name it, load it otherwise; `?` ends the run on a
\* refusal.
SetupWallet ==
    /\ pc = "setup_wallet"
    /\ LET w == WalletOrder[wi]
           r == IF w \notin wallets THEN NodeCreateWallet(w) ELSE NodeLoadWallet(w)
       IN  IF r.ok
           THEN /\ walletState' = [walletState EXCEPT ![w] = "loaded"]
                /\ wi' = wi + 1
                /\ pc' = IF wi = Len(WalletOrder) THEN "miner_address" ELSE "setup_wallet"
                /\ err' = err
           ELSE /\ pc' = "failed"
                /\ err' = r.reason
                /\ UNCHANGED <<walletState, wi>>
    /\ UNCHANGED <<height, minerBlocks, mempool, confirmedAt, txStore,
                   wallets, miner_address, loopVars, payVars, chainVars,
                   inputVars, outputVars, mining_fees, fileVars, histVars>>

\* miner_rpc.get_new_address(Some("Mining Reward"), None)?.assume_checked()
MinerAddress ==
    /\ pc = "miner_address"
    /\ miner_address' = MinerAddr
    /\ pc' = "loop_generate"
    /\ UNCHANGED <<nodeVars, err, wallets, wi, loopVars, payVars, chainVars,
                   inputVars, outputVars, mining_fees, fileVars, histVars>>

\* ------------------------------------------------------------- mining loop
\* miner_rpc.generate_to_address(1, &miner_address).ok()?  -- the call succeeds
LoopGenerate ==
    /\ pc = "loop_generate"
    /\ GenerateToAddress(1)
    /\ loopBlocks' = loopBlocks + 1
    /\ pc' = "loop_balance"
    /\ UNCHANGED <<err, setupVars, loopVars, payVars, chainVars, inputVars,
                   outputVars, mining_fees, fileVars, initHeight, initWallets,
                   iterations, loopFaults, balances, heightAtSend, heightAtQuery>>

\* The closure's verdict on the balance it read: Some((count, balance)) ends
\* find_map, None moves it to the next count.
Found_NotNegative(balance) == balance >= 0
Found(balance) == balance > 0

\* let spendable_balance = miner_rpc.get_balance(None, None).ok()?;
\* (spendable_balance > Amount::ZERO).then(|| (count, spendable_balance))
LoopBalance ==
    /\ pc = "loop_balance"
    /\ LET balance == NodeBalance
       IN  /\ balances' = Append(balances, balance)
           /\ iterations' = iterations + 1
           /\ IF Found(balance)
              THEN /\ blocks_mined_count' = count
                   /\ spendable_balance' = balance
                   /\ count' = count
                   /\ pc' = "trader_address"
              ELSE /\ count' = count + 1
                   /\ pc' = "loop_generate"
                   /\ UNCHANGED <<blocks_mined_count, spendable_balance>>
    /\ UNCHANGED <<nodeVars, err, setupVars, payVars, chainVars, inputVars,
                   outputVars, mining_fees, fileVars, initHeight, initWallets,
                   loopBlocks, loopFaults, heightAtSend, heightAtQuery>>

\* The policy the loop does not follow: give up with .unwrap_or((0, ZERO)).
LoopRpcError_Abort ==
    /\ pc \in {"loop_generate", "loop_balance"}
    /\ loopFaults < MaxLoopFaults
    /\ loopFaults' = loopFaults + 1
    /\ iterations' = iterations + 1
    /\ blocks_mined_count' = 0
    /\ spendable_balance' = 0
    /\ count' = count
    /\ pc' = "trader_address"
    /\ UNCHANGED <<nodeVars, err, setupVars, payVars, chainVars, inputVars,
                   outputVars, mining_fees, fileVars, initHeight, initWallets,
                   loopBlocks, balances, heightAtSend, heightAtQuery>>

\* Either call of the closure fails: `.ok()?` makes the closure return None,
\* and find_map goes on to the next count.
LoopRpcError ==
    /\ pc \in {"loop_generate", "loop_balance"}
    /\ loopFaults < MaxLoopFaults
    /\ loopFaults' = loopFaults + 1
    /\ iterations' = iterations + 1
    /\ count' = count + 1
    /\ pc' = "loop_generate"
    /\ UNCHANGED <<nodeVars, err, setupVars, blocks_mined_count, spendable_balance,
                   payVars, chainVars, inputVars, outputVars, mining_fees, fileVars,
                   initHeight, initWallets, loopBlocks, balances, heightAtSend,
                   heightAtQuery>>

\* ------------------------------------------------------ payment, confirmation
\* trader_rpc.get_new_address(Some("Received"), None)?.assume_checked()
GetTraderAddress ==
    /\ pc = "trader_address"
    /\ trader_address' = TraderAddr
    /\ pc' = "send"
    /\ UNCHANGED <<nodeVars, err, setupVars, loopVars, transaction_id, mempool_entry,
                   chainVars, inputVars, outputVars, mining_fees, fileVars, histVars>>

\* The transaction the Miner wallet builds for sendtoaddress: it spends the
\* matured coinbase of block b, pays AmountToSend to `dest` and the rest,
\* less the fee, to a fresh change address; the node places the change
\* output before or after the payment.
PaymentTx(b, dest, fee, changeFirst) ==
    LET pay    == [script_pubkey |-> PayTo(dest), value |-> AmountToSend]
        change == [script_pubkey |-> PayTo(ChangeAddr),
                   value |-> Reward - AmountToSend - fee]
    IN  [input  |-> <<[txid |-> CoinbaseId(b), vout |-> 0]>>,
         output |-> IF changeFirst THEN <<change, pay>> ELSE <<pay, change>>]

\* miner_rpc.send_to_address(&trader_address, amount_to_send, None, ...)?
SendToAddress ==
    /\ pc = "send"
    /\ IF NodeBalance < AmountToSend + MaxFee
       THEN /\ pc' = "failed"
            /\ err' = "sendtoaddress: insufficient funds"
            /\ UNCHANGED <<nodeVars, transaction_id, heightAtSend>>
       ELSE \E b \in MatureBlocks, fee \in 1 .. MaxFee, changeFirst \in BOOLEAN :
              /\ txStore' = (PayTxid :> PaymentTx(b, trader_address, fee, changeFirst))
                            @@ txStore
              /\ mempool' = mempool \cup {PayTxid}
              /\ transaction_id' = PayTxid
              /\ heightAtSend' = height
              /\ pc' = "mempool_entry"
              /\ err' = err
              /\ UNCHANGED <<walletState, height, minerBlocks, confirmedAt>>
    /\ UNCHANGED <<setupVars, loopVars, trader_address, mempool_entry, chainVars,
                   inputVars, outputVars, mining_fees, fileVars, initHeight,
                   initWallets, iterations, loopBlocks, loopFaults, balances,
                   heightAtQuery>>

\* rpc.get_mempool_entry(&transaction_id)?  -- the node refuses a txid its
\* mempool does not hold.
GetMempoolEntry ==
    /\ pc = "mempool_entry"
    /\ IF transaction_id \in mempool
       THEN /\ mempool_entry' = TRUE
            /\ heightAtQuery' = height
            /\ pc' = "confirm"
            /\ err' = err
       ELSE /\ pc' = "failed"
            /\ err' = "getmempoolentry: transaction not in mempool"
            /\ UNCHANGED <<mempool_entry, heightAtQuery>>
    /\ UNCHANGED <<nodeVars, setupVars, loopVars, trader_address, transaction_id,
                   chainVars, inputVars, outputVars, mining_fees, fileVars,
                   initHeight, initWallets, iterations, loopBlocks, loopFaults,
                   balances, heightAtSend>>

ConfirmBlock_Two ==
    /\ pc = "confirm"
    /\ GenerateToAddress(2)
    /\ pc' = "raw_transaction"
    /\ UNCHANGED <<err, setupVars, loopVars, payVars, chainVars, inputVars,
                   outputVars, mining_fees, fileVars, histVars>>

\* miner_rpc.generate_to_address(1, &miner_address)?
ConfirmBlock ==
    /\ pc = "confirm"
    /\ GenerateToAddress(1)
    /\ pc' = "raw_transaction"
    /\ UNCHANGED <<err, setupVars, loopVars, payVars, chainVars, inputVars,
                   outputVars, mining_fees, fileVars, histVars>>

\* let raw_transaction = rpc.get_raw_transaction(&transaction_id, None)?
GetRawTransaction ==
    /\ pc = "raw_transaction"
    /\ raw_transaction' = NodeGetTx(transaction_id)
    /\ pc' = "best_block_hash"
    /\ UNCHANGED <<nodeVars, err, setupVars, loopVars, payVars, latest_block_hash,
                   current_block_height, inputVars, outputVars, mining_fees,
                   fileVars, histVars>>

\* let latest_block_hash = rpc.get_best_block_hash()?
GetBestBlockHash ==
    /\ pc = "best_block_hash"
    /\ latest_block_hash' = BlockHash(height)
    /\ pc' = "block_count"
    /\ UNCHANGED <<nodeVars, err, setupVars, loopVars, payVars, raw_transaction,
                   current_block_height, inputVars, outputVars, mining_fees,
                   fileVars, histVars>>

\* let current_block_height = rpc.get_block_count()?
GetBlockCount ==
    /\ pc = "block_count"
    /\ current_block_height' = height
    /\ pc' = "analyse_input"
    /\ UNCHANGED <<nodeVars, err, setupVars, loopVars, payVars, raw_transaction,
                   latest_block_hash, inputVars, outputVars, mining_fees,
                   fileVars, histVars>>

\* ---------------------------------------------------------------- forensics
\* Address::from_script(..).map(|addr| addr.to_string()).unwrap_or_default()
AddressOrDefault(script) ==
    IF FromScript(script).ok THEN FromScript(script).addr ELSE ""

AfterInput == IF Len(raw_transaction.output) = 0 THEN "fee" ELSE "outputs"

\* The input analysis reading the last input instead of the first.
AnalyseInput_LastInput ==
    /\ pc = "analyse_input"
    /\ IF Len(raw_transaction.input) > 0
       THEN LET transaction_input    == raw_transaction.input[Len(raw_transaction.input)]
                previous_transaction == NodeGetTx(transaction_input.txid)
                previous_output      ==
                    previous_transaction.output[transaction_input.vout + 1]
            IN  /\ total_input_amount' = previous_output.value
                /\ sender_address' = AddressOrDefault(previous_output.script_pubkey)
       ELSE UNCHANGED inputVars
    /\ pc' = AfterInput
    /\ UNCHANGED <<nodeVars, err, setupVars, loopVars, payVars, chainVars,
                   outputVars, mining_fees, fileVars, histVars>>

\* if let Some(transaction_input) = raw_transaction.input.first() { .. }
AnalyseInput ==
    /\ pc = "analyse_input"
    /\ IF Len(raw_transaction.input) > 0
       THEN LET transaction_input    == raw_transaction.input[1]
                previous_transaction == NodeGetTx(transaction_input.txid)
                previous_output      ==
                    previous_transaction.output[transaction_input.vout + 1]
            IN  /\ total_input_amount' = previous_output.value
                /\ sender_address' = AddressOrDefault(previous_output.script_pubkey)
       ELSE UNCHANGED inputVars
    /\ pc' = AfterInput
    /\ UNCHANGED <<nodeVars, err, setupVars, loopVars, payVars, chainVars,
                   outputVars, mining_fees, fileVars, histVars>>

\* The body of `for transaction_output in &raw_transaction.output`, as the
\* change it makes to (recipient, change); an output whose script holds no
\* address is skipped.
Classify_FirstWins(acc, transaction_output, trader) ==
    LET decoded == FromScript(transaction_output.script_pubkey)
    IN  IF ~decoded.ok THEN acc
        ELSE IF decoded.addr = trader
        THEN IF acc.recipient_address # "" THEN acc
             ELSE [acc EXCEPT !.recipient_address = decoded.addr,
                              !.recipient_amount = transaction_output.value]
        ELSE IF acc.change_return_address # "" THEN acc
             ELSE [acc EXCEPT !.change_return_address = decoded.addr,
                              !.change_return_amount = transaction_output.value]

Classify_UndecodableIsChange(acc, transaction_output, trader) ==
    LET decoded == FromScript(transaction_output.script_pubkey)
    IN  IF decoded.ok /\ decoded.addr = trader
        THEN [acc EXCEPT !.recipient_address = decoded.addr,
                         !.recipient_amount = transaction_output.value]
        ELSE [acc EXCEPT !.change_return_address = decoded.addr,
                         !.change_return_amount = transaction_output.value]

Classify(acc, transaction_output, trader) ==
    LET decoded == FromScript(transaction_output.script_pubkey)
    IN  IF ~decoded.ok THEN acc
        ELSE IF decoded.addr = trader
        THEN [acc EXCEPT !.recipient_address = decoded.addr,
                         !.recipient_amount = transaction_output.value]
        ELSE [acc EXCEPT !.change_return_address = decoded.addr,
                         !.change_return_amount = transaction_output.value]

\* One pass of the output loop.
ScanOutput ==
    /\ pc = "outputs"
    /\ LET acc == [recipient_address     |-> recipient_address,
                   recipient_amount      |-> recipient_amount,
                   change_return_address |-> change_return_address,
                   change_return_amount  |-> change_return_amount]
           new == Classify(acc, raw_transaction.output[oi], trader_address)
       IN  /\ recipient_address' = new.recipient_address
           /\ recipient_amount' = new.recipient_amount
           /\ change_return_address' = new.change_return_address
           /\ change_return_amount' = new.change_return_amount
    /\ oi' = oi + 1
    /\ pc' = IF oi = Len(raw_transaction.output) THEN "fee" ELSE "outputs"
    /\ UNCHANGED <<nodeVars, err, setupVars, loopVars, payVars, chainVars,
                   inputVars, mining_fees, fileVars, histVars>>

RECURSIVE SumValues(_)
SumValues(outs) ==
    IF outs = <<>> THEN 0 ELSE Head(outs).value + SumValues(Tail(outs))

RECURSIVE SumDecodable(_)
SumDecodable(outs) ==
    IF outs = <<>> THEN 0
    ELSE (IF FromScript(Head(outs).script_pubkey).ok THEN Head(outs).value ELSE 0)
         + SumDecodable(Tail(outs))

\* raw_transaction.output.iter().map(|out| out.value.to_btc()).sum()
TotalOutputAmount_DecodableOnly(tx) == SumDecodable(tx.output)
TotalOutputAmount(tx) == SumValues(tx.output)

\* let mining_fees = total_input_amount - total_output_amount
ComputeFee ==
    /\ pc = "fee"
    /\ mining_fees' = total_input_amount - TotalOutputAmount(raw_transaction)
    /\ pc' = "create_file"
    /\ UNCHANGED <<nodeVars, err, setupVars, loopVars, payVars, chainVars,
                   inputVars, outputVars, fileVars, histVars>>

\* ------------------------------------------------------------------- report
RECURSIVE Pow10(_)
Pow10(k) == IF k = 0 THEN 1 ELSE 10 * Pow10(k - 1)

Abs(n) == IF n < 0 THEN -n ELSE n

RoundDiv(a, b) == (2 * a + b) \div (2 * b)

\* "{}" of the f64 units / UnitsPerBtc: sign, whole part, and the fraction
\* as a count of base units.
FmtDisplay(units) ==
    [fmt |-> "display", negative |-> units < 0,
     whole |-> Abs(units) \div UnitsPerBtc, frac |-> Abs(units) % UnitsPerBtc]

RECURSIVE ExpUp(_, _)
ExpUp(a, e) == IF a >= UnitsPerBtc * Pow10(e + 1) THEN ExpUp(a, e + 1) ELSE e

RECURSIVE ExpDown(_, _)
ExpDown(a, k) == IF a * Pow10(k) >= UnitsPerBtc THEN k ELSE ExpDown(a, k + 1)

\* "{:.2e}" of the f64 units / UnitsPerBtc: a three-digit mantissa, rounded,
\* and a decimal exponent.
FmtSci2(units) ==
    LET a == Abs(units)
        e == IF a >= UnitsPerBtc THEN ExpUp(a, 0) ELSE -ExpDown(a, 1)
        m == IF e >= 0 THEN RoundDiv(a * 100, UnitsPerBtc * Pow10(e))
                       ELSE RoundDiv(a * 100 * Pow10(-e), UnitsPerBtc)
    IN  IF a = 0
        THEN [fmt |-> "sci2", negative |-> FALSE, mantissa |-> 0, exponent |-> 0]
        ELSE IF m = 1000
        THEN [fmt |-> "sci2", negative |-> units < 0, mantissa |-> 100, exponent |-> e + 1]
        ELSE [fmt |-> "sci2", negative |-> units < 0, mantissa |-> m, exponent |-> e]

Newline == "\n"

\* The arguments of the write! format string, in its order.
ReportFields_Swapped ==
    <<transaction_id, sender_address, FmtDisplay(total_input_amount),
      change_return_address, FmtDisplay(change_return_amount),
      recipient_address, FmtDisplay(recipient_amount),
      FmtSci2(mining_fees), current_block_height, latest_block_hash>>

ReportFields ==
    <<transaction_id, sender_address, FmtDisplay(total_input_amount),
      recipient_address, FmtDisplay(recipient_amount),
      change_return_address, FmtDisplay(change_return_amount),
      FmtSci2(mining_fees), current_block_height, latest_block_hash>>

\* What write_fmt hands to the file, one write per piece: each argument and
\* the "\n" that follows it.
ReportPieces ==
    [i \in 1 .. 2 * Len(ReportFields) |->
        IF i % 2 = 1 THEN <<"field", ReportFields[(i + 1) \div 2]>>
                     ELSE <<"text", Newline>>]

\* let mut output_file = File::create("../out.txt")?  -- creates or truncates
CreateFile ==
    /\ pc = "create_file"
    /\ file_touched' = TRUE
    /\ file_pieces' = <<>>
    /\ pc' = "write"
    /\ UNCHANGED <<nodeVars, err, setupVars, loopVars, payVars, chainVars,
                   inputVars, outputVars, mining_fees, histVars>>

\* The write with its Result dropped: a failed write goes unnoticed.
WriteReport_IgnoreError ==
    /\ pc = "write"
    /\ \E k \in 0 .. Len(ReportPieces) :
         /\ file_pieces' = file_pieces \o SubSeq(ReportPieces, 1, k)
         /\ pc' = "done"
         /\ err' = err
    /\ UNCHANGED <<nodeVars, setupVars, loopVars, payVars, chainVars,
                   inputVars, outputVars, mining_fees, file_touched, histVars>>

\* write!(output_file, "{transaction_id}\n...{latest_block_hash}\n")?  -- the
\* pieces are written in order, and a write that fails ends the run with the
\* pieces before it in the file.
WriteReport ==
    /\ pc = "write"
    /\ \E k \in 0 .. Len(ReportPieces) :
         /\ file_pieces' = file_pieces \o SubSeq(ReportPieces, 1, k)
         /\ IF k = Len(ReportPieces)
            THEN pc' = "done" /\ err' = err
            ELSE pc' = "failed" /\ err' = "write"
    /\ UNCHANGED <<nodeVars, setupVars, loopVars, payVars, chainVars,
                   inputVars, outputVars, mining_fees, file_touched, histVars>>

\* ------------------------------------------------------------------ errors
\* The calls whose error `?` returns from main.
PropagatingCalls ==
    {"blockchain_info", "list_wallets", "setup_wallet", "miner_address",
     "trader_address", "send", "mempool_entry", "confirm", "raw_transaction",
     "best_block_hash", "block_count", "analyse_input", "create_file"}

\* A call fails in transport (or File::create fails): main returns the error.
PropagateError ==
    /\ pc \in PropagatingCalls
    /\ pc = "analyse_input" => Len(raw_transaction.input) > 0
    /\ pc' = "failed"
    /\ err' = pc
    /\ UNCHANGED <<nodeVars, setupVars, loopVars, payVars, chainVars,
                   inputVars, outputVars, mining_fees, fileVars, histVars>>

Next ==
    \/ BlockchainInfo
    \/ ListWallets
    \/ SetupWallet
    \/ MinerAddress
    \/ LoopGenerate
    \/ LoopBalance
    \/ LoopRpcError
    \/ GetTraderAddress
    \/ SendToAddress
    \/ GetMempoolEntry
    \/ ConfirmBlock
    \/ GetRawTransaction
    \/ GetBestBlockHash
    \/ GetBlockCount
    \/ AnalyseInput
    \/ ScanOutput
    \/ ComputeFee
    \/ CreateFile
    \/ WriteReport
    \/ PropagateError

Spec == Init /\ [][Next]_vars

\* ------------------------------------------- forensics on any transaction
\* The forensics step reads whatever transaction the node returns.  SpecTx
\* starts where the step starts, after a run on a fresh node, with the
\* transaction drawn from a bounded set: up to MaxInputs inputs spending
\* outputs of two earlier transactions, up to MaxOutputs outputs.
SeqsUpTo(S, n) == UNION {[1 .. k -> S] : k \in 0 .. n}

OutputScripts == {PayTo(TraderAddr), PayTo(ChangeAddr), PayTo(OtherAddr), NullData}
OutputValues  == {1, MaxValue}
TxOutputs     == [script_pubkey : OutputScripts, value : OutputValues]

PrevStore ==
    (PrevTxid(1) :> [input  |-> <<>>,
                     output |-> <<[script_pubkey |-> PayTo(MinerAddr), value |-> 7],
                                  [script_pubkey |-> NullData, value |-> 5]>>])
    @@
    (PrevTxid(2) :> [input  |-> <<>>,
                     output |-> <<[script_pubkey |-> PayTo(OtherAddr), value |-> 6]>>])

InputRefs ==
    {[txid |-> PrevTxid(1), vout |-> 0],
     [txid |-> PrevTxid(1), vout |-> 1],
     [txid |-> PrevTxid(2), vout |-> 0]}

Transactions ==
    [input : SeqsUpTo(InputRefs, MaxInputs), output : SeqsUpTo(TxOutputs, MaxOutputs)]

FirstSpendable == COINBASE_MATURITY + 1

InitTx ==
    /\ raw_transaction \in Transactions
    /\ walletState = [w \in WalletNames |-> "loaded"]
    /\ height = FirstSpendable + 1
    /\ minerBlocks = 1 .. height
    /\ mempool = {}
    /\ confirmedAt = (PayTxid :> height)
    /\ txStore = (PayTxid :> raw_transaction) @@ PrevStore
    /\ pc = "analyse_input"
    /\ err = ""
    /\ wallets = {}
    /\ wi = Len(WalletOrder) + 1
    /\ miner_address = MinerAddr
    /\ count = FirstSpendable
    /\ blocks_mined_count = FirstSpendable
    /\ spendable_balance = Reward
    /\ trader_address = TraderAddr
    /\ transaction_id = PayTxid
    /\ mempool_entry = TRUE
    /\ latest_block_hash = BlockHash(height)
    /\ current_block_height = height
    /\ sender_address = ""
    /\ total_input_amount = 0
    /\ recipient_address = ""
    /\ recipient_amount = 0
    /\ change_return_address = ""
    /\ change_return_amount = 0
    /\ oi = 1
    /\ mining_fees = 0
    /\ file_touched = FALSE
    /\ file_pieces = OldContents
    /\ initHeight = 0
    /\ initWallets = [w \in WalletNames |-> "absent"]
    /\ iterations = FirstSpendable
    /\ loopBlocks = FirstSpendable
    /\ loopFaults = 0
    /\ balances = [i \in 1 .. FirstSpendable |-> IF i = FirstSpendable THEN Reward ELSE 0]
    /\ heightAtSend = FirstSpendable
    /\ heightAtQuery = FirstSpendable

NextTx ==
    \/ AnalyseInput
    \/ ScanOutput
    \/ ComputeFee
    \/ PropagateError

SpecTx == InitTx /\ [][NextTx]_vars

\* =================================================================== claims
PreLoopPcs == {"blockchain_info", "list_wallets", "setup_wallet", "miner_address"}
LoopPcs    == {"loop_generate", "loop_balance"}
SetupRefusals ==
    {"createwallet: database already exists",
     "loadwallet: wallet is already loaded",
     "loadwallet: wallet not found"}

\* find_map has returned and main has gone on past the mining loop.
LoopReturned ==
    /\ pc \notin PreLoopPcs \cup LoopPcs
    /\ pc = "failed" => err \notin PreLoopPcs \cup SetupRefusals

FreshNode == initHeight = 0 /\ \A w \in WalletNames : initWallets[w] = "absent"

AllZero(seq) == \A i \in DOMAIN seq : seq[i] = 0

\* C1: when the mining loop returns (count, balance), balance > 0, every
\* balance observed in an earlier iteration was 0, count is the number of
\* iterations executed, and count is the number of blocks the loop generated.
C1_CountIsBlocksGenerated ==
    LoopReturned =>
        /\ spendable_balance > 0
        /\ Len(balances) >= 1
        /\ balances[Len(balances)] = spendable_balance
        /\ AllZero(SubSeq(balances, 1, Len(balances) - 1))
        /\ blocks_mined_count = iterations
        /\ blocks_mined_count = loopBlocks

\* C2: on a fresh node (height 0, no wallets) with every RPC call succeeding,
\* the balance is 0 after each of blocks 1..100, and the loop returns with
\* blocks_mined_count = 101 and a positive balance first seen at height 101.
C2_FreshNodeMines101 ==
    (FreshNode /\ loopFaults = 0) =>
        /\ pc \in LoopPcs =>
              /\ count <= COINBASE_MATURITY + 1
              /\ loopBlocks <= COINBASE_MATURITY + 1
              /\ AllZero(balances)
        /\ LoopReturned =>
              /\ blocks_mined_count = COINBASE_MATURITY + 1
              /\ spendable_balance > 0
              /\ Len(balances) = COINBASE_MATURITY + 1
              /\ AllZero(SubSeq(balances, 1, COINBASE_MATURITY))
              /\ balances[COINBASE_MATURITY + 1] = spendable_balance
              /\ loopBlocks = COINBASE_MATURITY + 1

C2_Witness == FreshNode /\ loopFaults = 0 /\ pc = "trader_address"

\* C3 as claimed: once an RPC call has failed inside the mining loop, the
\* loop has been left with the fallback result, zero blocks and zero balance.
C3_FailureAbortsWithFallback ==
    loopFaults > 0 =>
        /\ LoopReturned
        /\ blocks_mined_count = 0
        /\ spendable_balance = 0

\* C3 as amended: a failing RPC call inside the mining loop is not propagated
\* and does not end the loop: the iteration is abandoned, the loop goes on
\* with the next count, and no result is produced by that step; the loop is
\* never left with the fallback result of zero blocks and zero balance.
C3_FailureSkipsIteration ==
    /\ [][loopFaults' # loopFaults =>
            /\ pc' = "loop_generate"
            /\ count' = count + 1
            /\ err' = ""
            /\ UNCHANGED <<blocks_mined_count, spendable_balance>>]_vars
    /\ [](pc = "trader_address" => ~(blocks_mined_count = 0 /\ spendable_balance = 0))

C3_Witness ==
    /\ loopFaults > 0
    /\ pc = "trader_address"
    /\ blocks_mined_count = iterations
    /\ blocks_mined_count > loopBlocks

\* --- the outputs of the analysed transaction, by position
Outs == raw_transaction.output

Decodable(i) == FromScript(Outs[i].script_pubkey).ok

TraderIdx == {i \in DOMAIN Outs : Decodable(i) /\ Outs[i].script_pubkey.dest = TraderAddr}
ChangeIdx == {i \in DOMAIN Outs : Decodable(i) /\ Outs[i].script_pubkey.dest # TraderAddr}

Last(S) == CHOOSE i \in S : \A j \in S : j <= i

\* The outputs the report shows: the last of each category.
ReportedIdx ==
    (IF TraderIdx = {} THEN {} ELSE {Last(TraderIdx)})
    \cup (IF ChangeIdx = {} THEN {} ELSE {Last(ChangeIdx)})

RECURSIVE ValueOf(_)
ValueOf(S) ==
    IF S = {} THEN 0
    ELSE LET i == CHOOSE j \in S : TRUE IN Outs[i].value + ValueOf(S \ {i})

Scanned == pc \in {"fee", "create_file"}

\* C4 as claimed: recipient amount + change amount + fee = total input amount.
C4_AmountsAddUp ==
    pc = "create_file" =>
        recipient_amount + change_return_amount + mining_fees = total_input_amount

\* C4 as amended: recipient amount + change amount + fee equals the total
\* input amount less the value of the outputs the report does not show
\* (undecodable outputs, and outputs followed by a later output of the same
\* category); the three add up to the total input amount when every output
\* is decodable, at most one pays the trader and at most one pays another
\* address.
C4_AmountsAddUpLessUnreported ==
    pc = "create_file" =>
        /\ recipient_amount + change_return_amount + mining_fees
             = total_input_amount - ValueOf(DOMAIN Outs \ ReportedIdx)
        /\ ((\A i \in DOMAIN Outs : Decodable(i))
              /\ Cardinality(TraderIdx) <= 1 /\ Cardinality(ChangeIdx) <= 1)
           => recipient_amount + change_return_amount + mining_fees = total_input_amount

C4_Witness ==
    /\ pc = "create_file"
    /\ Len(raw_transaction.input) > 0
    /\ recipient_amount > 0
    /\ change_return_amount > 0
    /\ ValueOf(DOMAIN Outs \ ReportedIdx) > 0

\* C5: after the scan, the recipient is the last decodable output paying the
\* trader address and the change is the last decodable output paying another
\* address; a category without an output keeps the empty address and 0.
C5_LastMatchWins ==
    Scanned =>
        /\ <<recipient_address, recipient_amount>> =
              IF TraderIdx = {} THEN <<"", 0>>
              ELSE <<Outs[Last(TraderIdx)].script_pubkey.dest, Outs[Last(TraderIdx)].value>>
        /\ <<change_return_address, change_return_amount>> =
              IF ChangeIdx = {} THEN <<"", 0>>
              ELSE <<Outs[Last(ChangeIdx)].script_pubkey.dest, Outs[Last(ChangeIdx)].value>>

C5_Witness ==
    /\ pc = "fee"
    /\ Cardinality(TraderIdx) >= 2
    /\ \E i \in TraderIdx : Outs[i].value # recipient_amount
    /\ ChangeIdx # {}

\* C6: an undecodable output is never reported as recipient or change and
\* leaves both untouched when the scan passes it, and the fee is the total
\* input amount less the values of all outputs, undecodable ones included.
C6_UndecodableSkippedButCounted ==
    /\ [][(pc = "outputs" /\ ~Decodable(oi)) =>
            UNCHANGED <<recipient_address, recipient_amount,
                        change_return_address, change_return_amount>>]_vars
    /\ [](Scanned =>
            /\ recipient_address \in {""} \cup {Outs[i].script_pubkey.dest : i \in TraderIdx}
            /\ change_return_address \in {""} \cup {Outs[i].script_pubkey.dest : i \in ChangeIdx})
    /\ [](pc = "create_file" => mining_fees = total_input_amount - ValueOf(DOMAIN Outs))

C6_Witness ==
    /\ pc = "create_file"
    /\ \E i \in DOMAIN Outs : ~Decodable(i) /\ Outs[i].value > 0
    /\ \E i \in DOMAIN Outs : i > 1 /\ ~Decodable(i) /\ Decodable(i - 1)
    /\ recipient_address # ""

\* C7: the mempool entry is queried after the broadcast and before any
\* further block, while the node holds the payment unconfirmed in its
\* mempool, so the node does not refuse the query; exactly one block follows
\* the query, it confirms the payment, and the raw transaction, best block
\* hash and block count are read after it.
AfterConfirmPcs == {"raw_transaction", "best_block_hash", "block_count"}
AfterReadPcs    == {"analyse_input", "outputs", "fee", "create_file", "write", "done"}

C7_MempoolQueryBeforeConfirmation ==
    /\ pc = "mempool_entry" =>
          /\ transaction_id = PayTxid
          /\ transaction_id \in mempool
          /\ transaction_id \notin DOMAIN confirmedAt
          /\ height = heightAtSend
    /\ err # "getmempoolentry: transaction not in mempool"
    /\ mempool_entry => heightAtQuery = heightAtSend
    /\ pc = "confirm" => (mempool_entry /\ height = heightAtQuery /\ transaction_id \in mempool)
    /\ pc \in AfterConfirmPcs \cup AfterReadPcs =>
          /\ mempool_entry
          /\ height = heightAtQuery + 1
          /\ transaction_id \notin mempool
          /\ confirmedAt[transaction_id] = heightAtQuery + 1
    /\ pc \in AfterReadPcs =>
          /\ raw_transaction = txStore[transaction_id]
          /\ latest_block_hash = BlockHash(heightAtQuery + 1)
          /\ current_block_height = heightAtQuery + 1

C7_Witness == pc = "analyse_input" /\ mempool_entry /\ height = heightAtSend + 1

\* --- the report file
IsPrefix(s, t) == Len(s) <= Len(t) /\ s = SubSeq(t, 1, Len(s))

Untouched == ~file_touched /\ file_pieces = OldContents

CompleteReport ==
    /\ Len(file_pieces) = 20
    /\ \A i \in 1 .. 10 : file_pieces[2 * i - 1][1] = "field" /\ file_pieces[2 * i] = <<"text", Newline>>

\* C8 as claimed: when the run has ended, the report file is untouched or
\* holds the complete ten-field report.
C8_AllOrNothing ==
    pc \in {"done", "failed"} => (Untouched \/ CompleteReport)

\* C8 as amended: a run that ends in a failing RPC call or a failing
\* File::create leaves the file untouched (every RPC call precedes
\* File::create), and a run that completes leaves the complete ten-field
\* report; a run whose write fails ends in error with the file created or
\* truncated and holding a strict prefix of the report, possibly empty.
C8_AllOrNothingBeforeWrite ==
    /\ file_touched => pc \in {"write", "done", "failed"}
    /\ pc \notin {"write", "done", "failed"} => Untouched
    /\ (pc = "failed" /\ err # "write") => Untouched
    /\ pc = "write" => (file_touched /\ file_pieces = <<>>)
    /\ pc = "done" => (file_touched /\ CompleteReport)
    /\ (pc = "failed" /\ err = "write") =>
          /\ file_touched
          /\ Len(file_pieces) < 20
          /\ IsPrefix(file_pieces, ReportPieces)

C8_Witness ==
    /\ pc = "failed"
    /\ err = "write"
    /\ file_touched
    /\ Len(file_pieces) = 7

\* C9: a run that completes has written exactly ten newline-terminated
\* fields: transaction id, sender address, total input amount, recipient
\* address, recipient amount, change address, change amount, fee, block
\* height, block hash, each the value of its role for the payment the node
\* built, the height and hash being those of the confirming block.
PaidInput  == txStore[PayTxid].input[1]
SpentOutput == NodeGetTx(PaidInput.txid).output[PaidInput.vout + 1]

C9_ReportFieldsInOrder ==
    pc = "done" =>
        /\ CompleteReport
        /\ file_pieces[1][2] = PayTxid
        /\ file_pieces[3][2] = MinerAddr
        /\ file_pieces[3][2] = SpentOutput.script_pubkey.dest
        /\ file_pieces[5][2] = FmtDisplay(SpentOutput.value)
        /\ file_pieces[7][2] = TraderAddr
        /\ file_pieces[9][2] = FmtDisplay(AmountToSend)
        /\ file_pieces[11][2] = ChangeAddr
        /\ file_pieces[13][2] = FmtDisplay(Outs[Last(ChangeIdx)].value)
        /\ file_pieces[15][2] =
              FmtSci2(SpentOutput.value - AmountToSend - Outs[Last(ChangeIdx)].value)
        /\ file_pieces[17][2] = heightAtSend + 1
        /\ file_pieces[17][2] = height
        /\ file_pieces[19][2] = BlockHash(heightAtSend + 1)

C9_Witness ==
    /\ pc = "done"
    /\ Len(file_pieces) = 20
    /\ Outs[1].script_pubkey.dest = ChangeAddr
    /\ mining_fees = MaxFee

\* C10: whatever state the node holds the wallets "Miner" and "Trader" in
\* (never created, on disk but not loaded, loaded), the setup step is not
\* refused by the node, and it leaves both wallets loaded.
C10_SetupHandlesEveryWalletState ==
    /\ err \notin SetupRefusals
    /\ pc = "miner_address" => \A w \in WalletNames : walletState[w] = "loaded"

\* --- the output the first input of the analysed transaction spends
FirstInput == raw_transaction.input[1]
FirstSpent == txStore[FirstInput.txid].output[FirstInput.vout + 1]

InputAnalysed == pc \in {"outputs", "fee", "create_file"}

\* C11: for a transaction with one or more inputs, the sender address and
\* the total input amount are the address and the value of the output that
\* input 0 names by previous txid and vout, whatever the other inputs are;
\* when that output's script holds no address the sender address is the
\* empty string and the run has gone on without error.
C11_SenderIsFirstInput ==
    (InputAnalysed /\ Len(raw_transaction.input) >= 1) =>
        /\ total_input_amount = FirstSpent.value
        /\ sender_address =
              IF FirstSpent.script_pubkey.type \in AddressTypes
              THEN FirstSpent.script_pubkey.dest
              ELSE ""
        /\ err = ""

C11_Witness ==
    /\ pc = "create_file"
    /\ Len(raw_transaction.input) >= 2
    /\ raw_transaction.input[2].txid # FirstInput.txid
    /\ FirstSpent.script_pubkey.type \notin AddressTypes
    /\ sender_address = ""
    /\ total_input_amount = FirstSpent.value
    /\ total_input_amount > 0

\* C12: whenever the run is about to broadcast the payment, the mining loop
\* has returned a count of at least 1 and a balance greater than zero, never
\* the fallback (0, 0), whichever calls failed inside the loop.
C12_SendOnlyWithBalance ==
    pc = "send" =>
        /\ blocks_mined_count >= 1
        /\ spendable_balance > 0
        /\ spendable_balance = NodeBalance
        /\ blocks_mined_count = iterations
        /\ loopBlocks >= 1

C12_Witness ==
    /\ pc = "send"
    /\ loopFaults = MaxLoopFaults
    /\ loopBlocks < blocks_mined_count
    /\ spendable_balance > 0
====
